---- MODULE Spec2Model ----
(***************************************************************************)
(* Model of dashboard.py: one run of the Streamlit script over a loaded    *)
(* portfolio table.  The script normalizes the required columns, computes  *)
(* Score_Change, reads the sidebar controls and renders one page.          *)
(*                                                                         *)
(* Numbers are decimal values held in tenths (5.0 is 50, 0.8 is 8, 0.1 is  *)
(* 1); means and ratios are exact fractions num/den of tenths.  The input  *)
(* grid is chosen so that the float comparisons of the script agree with   *)
(* the decimal ones (no float difference on the grid is above 0.8 when the *)
(* decimal difference is 0.8).                                             *)
(***************************************************************************)
EXTENDS Integers, Sequences, FiniteSets

VARIABLES loaded, df, pc, error, view, vix_level, alerts, avg_score, sharpe,
          sector_summary, overview_table, regime, notice

vars == <<loaded, df, pc, error, view, vix_level, alerts, avg_score, sharpe,
          sector_summary, overview_table, regime, notice>>

(***************************************************************************)
(* Bounds of the model.                                                    *)
(***************************************************************************)
MaxRows == 2

(***************************************************************************)
(* Cell values: a float (a fraction of tenths), NaN (a missing cell), or a *)
(* string.                                                                 *)
(***************************************************************************)
Num(n) == [tag |-> "num", num |-> n, den |-> 1, str |-> ""]
NaN == [tag |-> "nan", num |-> 0, den |-> 1, str |-> ""]
Str(s) == [tag |-> "str", num |-> 0, den |-> 1, str |-> s]
None == [tag |-> "none", num |-> 0, den |-> 1, str |-> ""]

IsNum(v) == v.tag = "num"
IsStr(v) == v.tag = "str"

AbsInt(n) == IF n < 0 THEN -n ELSE n

RECURSIVE Gcd(_, _)
Gcd(a, b) == IF b = 0 THEN a ELSE Gcd(b, a % b)

\* The fraction n/d (d # 0) in lowest terms with a positive denominator.
Frac(n, d) ==
    LET g == Gcd(AbsInt(n), AbsInt(d))
        s == IF d < 0 THEN -1 ELSE 1
    IN [tag |-> "num", num |-> (s * n) \div g, den |-> (s * d) \div g, str |-> ""]

\* Policy constants of the script, in tenths.
SellThreshold == 50
ReviewDelta == 8
RiskFloor == 1
VixThreshold == 250
VixMin == 100
VixMax == 800
VixDefault == 180

required_cols == <<"Prev_Score", "Score_Change", "Verdict", "Weight">>

Views == {"Overview", "Scores", "Alerts", "Risk Monitor"}

(***************************************************************************)
(* Float arithmetic and comparison as Python and pandas perform them.      *)
(***************************************************************************)
\* a - b on two cells: a string operand is a TypeError, NaN propagates.
SubRaises(a, b) == IsStr(a) \/ IsStr(b)
Sub(a, b) ==
    IF ~IsNum(a) \/ ~IsNum(b) THEN NaN
    ELSE Frac(a.num * b.den - b.num * a.den, a.den * b.den)

\* a < b and a > b on floats: every comparison with NaN is False.
Lt(a, b) == IsNum(a) /\ IsNum(b) /\ a.num * b.den < b.num * a.den
Gt(a, b) == Lt(b, a)

\* abs(a)
Abs(a) == IF IsNum(a) THEN [a EXCEPT !.num = AbsInt(a.num)] ELSE a

\* a / b on floats with b # 0.
Div(a, b) ==
    IF ~IsNum(a) \/ ~IsNum(b) THEN NaN
    ELSE Frac(a.num * b.den, a.den * b.num)

\* Python's max(a, b): b when b > a, else a (so max(nan, b) is nan).
PyMax(a, b) == IF Gt(b, a) THEN b ELSE a

\* The SELL message carries no number.
NoDelta == [sign |-> "", whole |-> 0, cents |-> 0]

\* f"{x:+.2f}" of a numeric cell holding whole tenths: sign, integer part
\* and the two decimals.
FormatSigned2(a) ==
    [sign |-> IF a.num < 0 THEN "-" ELSE "+",
     whole |-> AbsInt(a.num) \div 10,
     cents |-> (AbsInt(a.num) % 10) * 10]

(***************************************************************************)
(* pandas column operations over the rows of a frame.                      *)
(***************************************************************************)
\* The cells of column col, in row order.
Column(rows, col) == [i \in 1..Len(rows) |-> rows[i][col]]

RECURSIVE SumSkipNa(_)
SumSkipNa(cells) ==
    IF cells = <<>> THEN 0
    ELSE (IF IsNum(Head(cells)) THEN Head(cells).num ELSE 0) + SumSkipNa(Tail(cells))

RECURSIVE CountNum(_)
CountNum(cells) ==
    IF cells = <<>> THEN 0
    ELSE (IF IsNum(Head(cells)) THEN 1 ELSE 0) + CountNum(Tail(cells))

\* Series.mean(): the mean of the non-missing cells, NaN when there is none.
Mean(cells) ==
    IF CountNum(cells) = 0 THEN NaN
    ELSE Frac(SumSkipNa(cells), CountNum(cells))

(***************************************************************************)
(* The loaded frame.  A frame is its set of columns and its rows, each row *)
(* a function from column to cell.  Symbol, Sector and Score are always    *)
(* loaded; the other columns (Company among them) may be absent from the   *)
(* file, and a cell of a present column may be missing (NaN).              *)
(***************************************************************************)
BaseCols == {"Symbol", "Sector", "Score"}

Symbols == <<"AAPL", "MSFT", "NVDA", "XOM", "JPM">>

\* Rows that vary in the scoring fields.  A row holding a string has a
\* number in the other score field.
ScorePrevPairs ==
    ({Num(45), Num(50), Num(70)} \X {Num(42), Num(50), Num(60), NaN})
      \cup {<<Str("n/a"), Num(50)>>, <<Num(70), Str("n/a")>>}

\* A row whose record lacks every required field (missing cells wherever the
\* column exists).
BareProfile ==
    [score |-> Num(70), prev |-> NaN, change |-> NaN, verdict |-> NaN,
     weight |-> NaN, sector |-> "Tech", risk |-> Num(5)]

ScoringProfiles ==
    { [score |-> sp[1], prev |-> sp[2], change |-> Num(99), verdict |-> Str("BUY"),
       weight |-> Num(2), sector |-> "Tech", risk |-> Num(5)] : sp \in ScorePrevPairs }
      \cup {BareProfile}

\* Rows that vary in the aggregated fields.
AggregationProfiles ==
    { [score |-> s, prev |-> Num(50), change |-> Num(99), verdict |-> Str("HOLD"),
       weight |-> w, sector |-> sec, risk |-> r] :
         s \in {Num(45), Num(70)}, w \in {Num(2), Num(3)},
         sec \in {"Tech", "Energy"}, r \in {Num(0), Num(5), NaN} }

MkRow(cols, sym, p) ==
    [c \in cols |->
        CASE c = "Symbol" -> Str(sym)
          [] c = "Sector" -> Str(p.sector)
          [] c = "Score" -> p.score
          [] c = "Prev_Score" -> p.prev
          [] c = "Score_Change" -> p.change
          [] c = "Verdict" -> p.verdict
          [] c = "Weight" -> p.weight
          [] c = "Risk" -> p.risk
          [] c = "Company" -> Str(sym)]

\* The frame of n rows with the optional columns opt, row i built from
\* choice[i].
Frame(n, opt, choice) ==
    [cols |-> BaseCols \cup opt,
     rows |-> IF n = 0 THEN <<>>
              ELSE [i \in 1..n |-> MkRow(BaseCols \cup opt, Symbols[i], choice[i])]]

ScoringOptional ==
    { o \cup {"Risk"} :
        o \in SUBSET {"Prev_Score", "Score_Change", "Verdict", "Weight", "Company"} }

AggregationOptional ==
    { {"Prev_Score", "Verdict"} \cup o : o \in SUBSET {"Weight", "Risk", "Company"} }

\* The frames the loader may return: up to MaxRows rows of one family.
Loadable(frame) ==
    \E n \in 0..MaxRows :
        \/ \E opt \in ScoringOptional, choice \in [1..n -> ScoringProfiles] :
              frame = Frame(n, opt, choice)
        \/ \E opt \in AggregationOptional, choice \in [1..n -> AggregationProfiles] :
              frame = Frame(n, opt, choice)

(***************************************************************************)
(* Core functions of the script.                                           *)
(***************************************************************************)
\* Variant: the review rule tested before the sell rule.
AlertOfRowReviewFirst(row) ==
    IF Gt(Abs(row["Score_Change"]), Num(ReviewDelta))
      THEN << [kind |-> "REVIEW", symbol |-> row["Symbol"].str,
               delta |-> FormatSigned2(row["Score_Change"])] >>
    ELSE IF Lt(row["Score"], Num(SellThreshold))
      THEN << [kind |-> "SELL", symbol |-> row["Symbol"].str, delta |-> NoDelta] >>
    ELSE <<>>

\* Variant: both thresholds inclusive (<= 5.0, >= 0.8).
AlertOfRowInclusive(row) ==
    IF ~Gt(row["Score"], Num(SellThreshold)) /\ IsNum(row["Score"])
      THEN << [kind |-> "SELL", symbol |-> row["Symbol"].str, delta |-> NoDelta] >>
    ELSE IF ~Lt(Abs(row["Score_Change"]), Num(ReviewDelta)) /\ IsNum(row["Score_Change"])
      THEN << [kind |-> "REVIEW", symbol |-> row["Symbol"].str,
               delta |-> FormatSigned2(row["Score_Change"])] >>
    ELSE <<>>

\* One pass of the loop body of calculate_alerts: the alerts row appends.
AlertOfRow(row) ==
    IF Lt(row["Score"], Num(SellThreshold))
      THEN << [kind |-> "SELL", symbol |-> row["Symbol"].str, delta |-> NoDelta] >>
    ELSE IF Gt(Abs(row["Score_Change"]), Num(ReviewDelta))
      THEN << [kind |-> "REVIEW", symbol |-> row["Symbol"].str,
               delta |-> FormatSigned2(row["Score_Change"])] >>
    ELSE <<>>

\* Variant: each alert inserted at the front of the list.
RECURSIVE AlertsFromPrepend(_, _)
AlertsFromPrepend(rows, i) ==
    IF i > Len(rows) THEN <<>>
    ELSE AlertsFromPrepend(rows, i + 1) \o AlertOfRow(rows[i])

\* calculate_alerts over the rows from index i on.
RECURSIVE AlertsFrom(_, _)
AlertsFrom(rows, i) ==
    IF i > Len(rows) THEN <<>>
    ELSE AlertOfRow(rows[i]) \o AlertsFrom(rows, i + 1)

calculate_alerts(frame) == AlertsFrom(frame.rows, 1)

\* Variant: the group filter dropped, every row counted in every sector.
RowsOfSectorAll(rows, sec) == rows

\* df.groupby('Sector')['Weight'].sum(): one entry per sector that occurs,
\* the sum of the non-missing weights of its rows.

RowsOfSector(rows, sec) == SelectSeq(rows, LAMBDA r : r["Sector"].str = sec)

sector_allocation(frame) ==
    LET secs == { frame.rows[i]["Sector"].str : i \in 1..Len(frame.rows) }
    IN [sec \in secs |->
          Frac(SumSkipNa(Column(RowsOfSector(frame.rows, sec), "Weight")), 1)]

\* df['Score'].mean()
average_score(frame) == Mean(Column(frame.rows, "Score"))

\* df['Score'].mean() / max(df['Risk'].mean(), 0.1)
risk_adjusted_ratio(frame) ==
    Div(average_score(frame), PyMax(Mean(Column(frame.rows, "Risk")), Num(RiskFloor)))

\* Variant: the threshold itself trips the breaker (>= 25).
risk_regime_inclusive(vix) ==
    IF vix >= VixThreshold THEN "CircuitBreakerActive" ELSE "NormalTrading"

\* The regime branch of the Risk Monitor page.
risk_regime(vix) == IF vix > VixThreshold THEN "CircuitBreakerActive" ELSE "NormalTrading"

(***************************************************************************)
(* The script, top to bottom.                                              *)
(***************************************************************************)
Init ==
    /\ Loadable(loaded)
    /\ df = loaded
    /\ pc = "normalize"
    /\ error = "none"
    /\ view = "Overview"
    /\ vix_level = VixDefault
    /\ alerts = <<>>
    /\ avg_score = None
    /\ sharpe = None
    /\ sector_summary = <<>>
    /\ overview_table = <<>>
    /\ regime = "none"
    /\ notice = "none"

\* The default the normalizer assigns to a missing column.
DefaultOf(col) == IF col # "Verdict" THEN Num(0) ELSE Str("N/A")

RequiredSet == { required_cols[k] : k \in 1..Len(required_cols) }

\* The frame after the required_cols loop: each required column that is not
\* among the frame's columns is added, with its default in every row.
Normalized(frame) ==
    LET missing == RequiredSet \ frame.cols
        cols2 == frame.cols \cup missing
    IN [cols |-> cols2,
        rows |-> [i \in 1..Len(frame.rows) |->
                    [c \in cols2 |-> IF c \in frame.cols THEN frame.rows[i][c]
                                     ELSE DefaultOf(c)]]]

Normalize ==
    /\ pc = "normalize"
    /\ df' = Normalized(df)
    /\ pc' = "delta"
    /\ UNCHANGED <<loaded, error, view, vix_level, alerts, avg_score, sharpe, sector_summary, overview_table, regime, notice>>

\* df["Score"] - df["Prev_Score"] raises when a row cannot be subtracted.
DeltaRaises(frame) ==
    \E i \in 1..Len(frame.rows) :
        SubRaises(frame.rows[i]["Score"], frame.rows[i]["Prev_Score"])

\* Variant: a supplied (non-zero) Score_Change is kept, only a defaulted one
\* is computed.
WithDeltaKeepSupplied(frame) ==
    [frame EXCEPT !.rows =
        [i \in 1..Len(frame.rows) |->
            [frame.rows[i] EXCEPT !["Score_Change"] =
                IF @ = Num(0)
                  THEN Sub(frame.rows[i]["Score"], frame.rows[i]["Prev_Score"])
                  ELSE @]]]

\* The frame with Score_Change assigned Score - Prev_Score in every row.
WithDelta(frame) ==
    [frame EXCEPT !.rows =
        [i \in 1..Len(frame.rows) |->
            [frame.rows[i] EXCEPT !["Score_Change"] =
                Sub(frame.rows[i]["Score"], frame.rows[i]["Prev_Score"])]]]

ComputeDelta ==
    /\ pc = "delta"
    /\ IF DeltaRaises(df)
         THEN /\ error' = "TypeError"
              /\ pc' = "failed"
              /\ UNCHANGED df
         ELSE /\ df' = WithDelta(df)
              /\ pc' = "controls"
              /\ UNCHANGED error
    /\ UNCHANGED <<loaded, view, vix_level, alerts, avg_score, sharpe, sector_summary, overview_table, regime, notice>>

\* Readings entered in the "Current VIX" input, within its min and max.
VixInputs == { v \in {VixMin, VixDefault, VixThreshold, VixThreshold + 1, 300, VixMax} :
                 VixMin <= v /\ v <= VixMax }

SidebarControls ==
    /\ pc = "controls"
    /\ \E v \in Views, x \in VixInputs :
          /\ view' = v
          /\ vix_level' = x
    /\ pc' = "page"
    /\ UNCHANGED <<loaded, df, error, alerts, avg_score, sharpe, sector_summary, overview_table, regime, notice>>

\* The columns of the table under the Overview metrics.
OverviewCols == {"Symbol", "Company", "Sector", "Score", "Verdict"}

\* df[[...]].sort_values('Score', ascending=False): the rows projected on
\* OverviewCols in an order of non-increasing Score; the order of rows with
\* equal scores is left to the sort.
SortedViews(frame) ==
    LET n == Len(frame.rows)
    IN { [k \in 1..n |-> [c \in OverviewCols |-> frame.rows[p[k]][c]]] :
           p \in { q \in [1..n -> 1..n] :
                     /\ \A a, b \in 1..n : a # b => q[a] # q[b]
                     /\ \A a, b \in 1..n :
                           a < b => ~Lt(frame.rows[q[a]]["Score"], frame.rows[q[b]]["Score"]) } }

\* The Overview page: the two metrics, the sector chart, then the table.
\* df['Risk'] is a KeyError when the frame has no Risk column: the Average
\* Score metric is already rendered by then and the sector chart is not
\* reached.  The table selects Company, a KeyError when the frame has no
\* such column: the metrics and the chart are already rendered by then.
OverviewPage ==
    /\ pc = "page"
    /\ view = "Overview"
    /\ avg_score' = average_score(df)
    /\ IF "Risk" \notin df.cols
         THEN /\ error' = "KeyError: Risk"
              /\ pc' = "failed"
              /\ UNCHANGED <<sharpe, sector_summary, overview_table>>
         ELSE /\ sharpe' = risk_adjusted_ratio(df)
              /\ sector_summary' = sector_allocation(df)
              /\ IF OverviewCols \subseteq df.cols
                   THEN /\ overview_table' \in SortedViews(df)
                        /\ pc' = "done"
                        /\ UNCHANGED error
                   ELSE /\ error' = "KeyError: Company"
                        /\ pc' = "failed"
                        /\ UNCHANGED overview_table
    /\ UNCHANGED <<loaded, df, view, vix_level, alerts, regime, notice>>

\* The Scores page ends in px.barh, which plotly.express does not define
\* (the filter widgets before it keep no state of the script).
ScoresPage ==
    /\ pc = "page"
    /\ view = "Scores"
    /\ error' = "AttributeError"
    /\ pc' = "failed"
    /\ UNCHANGED <<loaded, df, view, vix_level, alerts, avg_score, sharpe, sector_summary, overview_table, regime, notice>>

AlertsPage ==
    /\ pc = "page"
    /\ view = "Alerts"
    /\ alerts' = calculate_alerts(df)
    /\ notice' = IF alerts' # <<>> THEN "warnings" ELSE "No alerts - portfolio stable."
    /\ pc' = "done"
    /\ UNCHANGED <<loaded, df, error, view, vix_level, avg_score, sharpe, sector_summary, overview_table, regime>>

RiskMonitorPage ==
    /\ pc = "page"
    /\ view = "Risk Monitor"
    /\ regime' = risk_regime(vix_level)
    /\ pc' = "done"
    /\ UNCHANGED <<loaded, df, error, view, vix_level, alerts, avg_score, sharpe, sector_summary, overview_table, notice>>

Next ==
    \/ Normalize
    \/ ComputeDelta
    \/ SidebarControls
    \/ OverviewPage
    \/ ScoresPage
    \/ AlertsPage
    \/ RiskMonitorPage

Spec == Init /\ [][Next]_vars

(***************************************************************************)
(* Properties.                                                             *)
(***************************************************************************)
Rows == 1..Len(df.rows)

SymbolOf(i) == df.rows[i]["Symbol"].str

\* The Delta Calculator has completed (the subtraction did not raise).
DeltaDone ==
    \/ pc \in {"controls", "page", "done"}
    \/ pc = "failed" /\ error # "TypeError"

AlertsShown == pc = "done" /\ view = "Alerts"

RiskShown == pc = "done" /\ view = "Risk Monitor"

\* The Overview page acted: it finished, or it stopped at a missing column.
OverviewRendered ==
    /\ view = "Overview"
    /\ \/ pc = "done"
       \/ pc = "failed" /\ error \in {"KeyError: Risk", "KeyError: Company"}

\* The Overview page built the sector chart (it got past the Risk column).
SectorChartBuilt == OverviewRendered /\ error # "KeyError: Risk"

\* The positions in alerts of the alerts naming sym.
AlertsOf(sym) == { k \in 1..Len(alerts) : alerts[k].symbol = sym }

\* The alert rules as the specification words them, on decimal tenths.
SellRule(row) == IsNum(row["Score"]) /\ row["Score"].num < 50 * row["Score"].den

ReviewRule(row) ==
    /\ IsNum(row["Score_Change"])
    /\ AbsInt(row["Score_Change"].num) > 8 * row["Score_Change"].den

\* C1: once the Delta Calculator has run, every row with a numeric score and
\* prev_score has score_change = score - prev_score, whatever score_change
\* the loaded table carried for it.
C1_DeltaExact ==
    DeltaDone =>
        \A i \in Rows :
            (IsNum(df.rows[i]["Score"]) /\ IsNum(df.rows[i]["Prev_Score"])) =>
                df.rows[i]["Score_Change"] =
                    Num(df.rows[i]["Score"].num - df.rows[i]["Prev_Score"].num)

C1_Witness ==
    /\ pc = "controls"
    /\ Len(df.rows) >= 1
    /\ "Score_Change" \in loaded.cols
    /\ loaded.rows[1]["Score_Change"] = Num(99)
    /\ df.rows[1]["Score"] = Num(45)
    /\ df.rows[1]["Prev_Score"] = Num(60)
    /\ df.rows[1]["Score_Change"] = Num(-15)

\* C2: a row with score < 5.0 and |score_change| > 0.8 contributes exactly
\* one alert, a sell signal, and no review alert.
C2_SellPriority ==
    AlertsShown =>
        \A i \in Rows :
            (SellRule(df.rows[i]) /\ ReviewRule(df.rows[i])) =>
                /\ Cardinality(AlertsOf(SymbolOf(i))) = 1
                /\ \A k \in AlertsOf(SymbolOf(i)) : alerts[k].kind = "SELL"

C2_Witness ==
    /\ AlertsShown
    /\ \E i \in Rows :
          /\ df.rows[i]["Score"] = Num(45)
          /\ df.rows[i]["Score_Change"] = Num(-15)
          /\ \E k \in 1..Len(alerts) :
                alerts[k].symbol = SymbolOf(i) /\ alerts[k].kind = "SELL"

\* C3: the alerts hold exactly one alert per triggering row and none for the
\* other rows, in the order of the rows, so never more alerts than rows.
C3_OnePerRowInOrder ==
    AlertsShown =>
        /\ \A i \in Rows :
              Cardinality(AlertsOf(SymbolOf(i))) =
                  IF SellRule(df.rows[i]) \/ ReviewRule(df.rows[i]) THEN 1 ELSE 0
        /\ \A k \in 1..Len(alerts) : \E i \in Rows : alerts[k].symbol = SymbolOf(i)
        /\ \A i, j \in Rows :
              i < j => \A ki \in AlertsOf(SymbolOf(i)), kj \in AlertsOf(SymbolOf(j)) : ki < kj
        /\ Len(alerts) <= Len(df.rows)

C3_Witness ==
    /\ AlertsShown
    /\ Len(df.rows) = 2
    /\ SellRule(df.rows[1])
    /\ ~SellRule(df.rows[2]) /\ ReviewRule(df.rows[2])
    /\ Len(alerts) = 2
    /\ alerts[1].symbol = SymbolOf(1) /\ alerts[1].kind = "SELL"
    /\ alerts[2].symbol = SymbolOf(2) /\ alerts[2].kind = "REVIEW"

\* A row at or above 5.0 whose change is within 0.8 either way.
QuietRow(row) ==
    /\ IsNum(row["Score"]) /\ row["Score"].num >= 50 * row["Score"].den
    /\ IsNum(row["Score_Change"])
    /\ AbsInt(row["Score_Change"].num) <= 8 * row["Score_Change"].den

\* C4: a row with score >= 5.0 and |score_change| <= 0.8 produces no alert
\* (both comparisons are strict), and a table of only such rows yields the
\* empty alert sequence.
C4_QuietRowsNoAlert ==
    AlertsShown =>
        /\ \A i \in Rows : QuietRow(df.rows[i]) => AlertsOf(SymbolOf(i)) = {}
        /\ (\A i \in Rows : QuietRow(df.rows[i])) =>
              (alerts = <<>> /\ notice = "No alerts - portfolio stable.")

C4_Witness ==
    /\ AlertsShown
    /\ Len(df.rows) = 2
    /\ df.rows[1]["Score"] = Num(50) /\ df.rows[1]["Score_Change"] = Num(0)
    /\ df.rows[2]["Score"] = Num(50) /\ df.rows[2]["Score_Change"] = Num(8)
    /\ alerts = <<>>

\* C5: after the normalizer every row has each of prev_score, score_change,
\* verdict and weight populated, a field the loaded row lacked holding its
\* default (0.0, or "N/A" for the verdict).
C5_AllFieldsPopulated ==
    pc = "delta" =>
        \A i \in Rows : \A c \in {"Prev_Score", "Score_Change", "Verdict", "Weight"} :
            /\ c \in df.cols
            /\ df.rows[i][c].tag # "nan"
            /\ (c \notin loaded.cols \/ loaded.rows[i][c].tag = "nan") =>
                  df.rows[i][c] = (IF c = "Verdict" THEN Str("N/A") ELSE Num(0))

\* C6: the regime is CircuitBreakerActive exactly when the reading is above
\* 25.0 and NormalTrading otherwise, whatever the score table holds.
C6_RegimeByThreshold ==
    RiskShown =>
        /\ regime \in {"CircuitBreakerActive", "NormalTrading"}
        /\ (regime = "CircuitBreakerActive") <=> (vix_level > 250)
        /\ (regime = "NormalTrading") <=> (vix_level <= 250)

C6_Witness ==
    /\ RiskShown
    /\ vix_level = 250
    /\ regime = "NormalTrading"
    /\ Len(df.rows) >= 1

\* The weight of the rows with index in I, a missing weight counting 0.0.
RECURSIVE WeightOver(_)
WeightOver(I) ==
    IF I = {} THEN 0
    ELSE LET i == CHOOSE x \in I : TRUE
             w == df.rows[i]["Weight"]
         IN (IF IsNum(w) THEN w.num ELSE 0) + WeightOver(I \ {i})

RECURSIVE SumOfValues(_, _)
SumOfValues(f, K) ==
    IF K = {} THEN 0
    ELSE LET k == CHOOSE x \in K : TRUE
         IN f[k].num + SumOfValues(f, K \ {k})

\* C7: sector_allocation has exactly the sectors of the table as keys, each
\* mapped to the sum of weight over the rows of that sector, and its values
\* sum to the weight of the whole table.
C7_SectorSums ==
    SectorChartBuilt =>
        /\ DOMAIN sector_summary = { df.rows[i]["Sector"].str : i \in Rows }
        /\ \A sec \in DOMAIN sector_summary :
              sector_summary[sec] =
                  Num(WeightOver({ i \in Rows : df.rows[i]["Sector"].str = sec }))
        /\ SumOfValues(sector_summary, DOMAIN sector_summary) = WeightOver(Rows)

C7_Witness ==
    /\ SectorChartBuilt
    /\ Len(df.rows) = 2
    /\ df.rows[1]["Sector"].str = "Tech" /\ df.rows[1]["Weight"] = Num(2)
    /\ df.rows[2]["Sector"].str = "Energy" /\ df.rows[2]["Weight"] = Num(3)
    /\ DOMAIN sector_summary = {"Tech", "Energy"}
    /\ sector_summary["Tech"] = Num(2)
    /\ sector_summary["Energy"] = Num(3)

\* The sum of the scores of the rows with index in I.
RECURSIVE ScoreOver(_)
ScoreOver(I) ==
    IF I = {} THEN 0
    ELSE LET i == CHOOSE x \in I : TRUE
         IN df.rows[i]["Score"].num + ScoreOver(I \ {i})

\* C8: average_score of a table with no rows signals EmptyInput and yields
\* no number to display; with rows it is the arithmetic mean of score.
C8_EmptyInputSignalled ==
    OverviewRendered =>
        IF Len(df.rows) = 0
          THEN error = "EmptyInput" /\ avg_score = None
          ELSE avg_score = Frac(ScoreOver(Rows), Len(df.rows))

\* The rows that supply a risk value.
RiskRows == { i \in Rows : "Risk" \in df.cols /\ IsNum(df.rows[i]["Risk"]) }

RECURSIVE RiskOver(_)
RiskOver(I) ==
    IF I = {} THEN 0
    ELSE LET i == CHOOSE x \in I : TRUE
         IN df.rows[i]["Risk"].num + RiskOver(I \ {i})

\* C9: risk_adjusted_ratio is average_score / max(average_risk, 0.1), where
\* average_risk is the mean of risk over the rows that supply it and 0.0
\* when none does; the computation of the ratio does not fail.
C9_RatioWithFloor ==
    (OverviewRendered /\ Len(df.rows) >= 1) =>
        LET average_risk == IF RiskRows = {} THEN Num(0)
                            ELSE Frac(RiskOver(RiskRows), Cardinality(RiskRows))
            denominator == IF average_risk.num < average_risk.den
                             THEN Num(1) ELSE average_risk
        IN /\ error # "KeyError: Risk"
           /\ sharpe = Frac(avg_score.num * denominator.den,
                            avg_score.den * denominator.num)

\* C10: a row with a non-numeric score or prev_score does not abort the
\* batch: every other row still gets score_change = score - prev_score.
C10_BadRowIsolated ==
    (pc \notin {"normalize", "delta"}
        /\ \E i \in Rows : IsStr(df.rows[i]["Score"]) \/ IsStr(df.rows[i]["Prev_Score"])) =>
        /\ error # "TypeError"
        /\ \A i \in Rows :
              (IsNum(df.rows[i]["Score"]) /\ IsNum(df.rows[i]["Prev_Score"])) =>
                  df.rows[i]["Score_Change"] =
                      Num(df.rows[i]["Score"].num - df.rows[i]["Prev_Score"].num)

====
